---- MODULE Spec2Model ----
(***************************************************************************)
(* Model of libs/driver-adapters/executor/src/query-engine-wasm.ts:        *)
(* getQueryEngineForProvider, an async function, and the module-level set  *)
(* initializedModules it shares between all of its calls.                  *)
(*                                                                         *)
(* A call is cut at its two awaits (the dynamic import, fs.readFile): the  *)
(* JavaScript run-to-completion rule makes each piece between two awaits   *)
(* one atomic action.  The disk is the environment: the pkg/<dir>          *)
(* directory of a provider may be replaced at any time.                    *)
(***************************************************************************)
EXTENDS Integers, Sequences, FiniteSets, TLC

\* Number of calls of getQueryEngineForProvider made during the process.
NumCalls == 2

Calls == 1..NumCalls

\* The identifiers a caller passes.  "postgres" is the driver adapters' name
\* of the backend whose directory is "postgresql"; "oracle" stands for every
\* identifier outside the supported set.
Providers == {"postgres", "postgresql", "mysql", "oracle"}

\* The directories under query-engine-wasm/pkg.
Dirs == {"postgresql", "mysql"}

NoDir == "none"

\* utils.normaliseProvider: the canonical directory segment of a provider;
\* fails (NoDir) on an identifier outside the supported set.
normaliseProvider(p) ==
    CASE p = "postgres"   -> "postgresql"
      [] p = "postgresql" -> "postgresql"
      [] p = "mysql"      -> "mysql"
      [] OTHER            -> NoDir

Supported == {p \in Providers : normaliseProvider(p) # NoDir}

\* What pkg/<dir> holds: nothing, or query_engine_bg.js together with a
\* query_engine_bg.wasm that is well formed and starts ("good"), does not
\* compile ("malformed"), compiles but does not link against the glue module
\* ("mismatch"), or links but whose __wbindgen_start throws ("badstart").
Payloads == {"good", "malformed", "mismatch", "badstart"}
DiskStates == {"absent"} \cup Payloads

\* The initialisation without the final initializedModules.add.
InitOrderNoAdd == <<"read", "compile", "instantiate", "bind", "start">>

\* The marker added as soon as the bytes are read.
InitOrderAddAfterRead ==
    <<"read", "add", "compile", "instantiate", "bind", "start">>

\* The start export invoked ahead of __wbg_set_wasm.
InitOrderStartBeforeBind ==
    <<"read", "compile", "instantiate", "start", "bind", "add">>

\* The marker added ahead of the start export.
InitOrderAddBeforeStart ==
    <<"read", "compile", "instantiate", "bind", "add", "start">>

\* The steps of lines 19-35, in the order of the source text.
InitOrder == <<"read", "compile", "instantiate", "bind", "start", "add">>

\* A read that yields an empty buffer for a missing file: the failure shows
\* only at compilation.
FailingStepEmptyRead(bytes) ==
    CASE bytes = "absent"    -> "compile"
      [] bytes = "malformed" -> "compile"
      [] bytes = "mismatch"  -> "instantiate"
      [] bytes = "badstart"  -> "start"
      [] OTHER               -> "nothing"

\* Imports resolved lazily: a payload that does not match the glue module
\* instantiates and fails only when started.
FailingStepLateLink(bytes) ==
    CASE bytes = "absent"    -> "read"
      [] bytes = "malformed" -> "compile"
      [] bytes = "mismatch"  -> "start"
      [] bytes = "badstart"  -> "start"
      [] OTHER               -> "nothing"

\* The step of lines 19-35 that throws for a given result of the read.
FailingStep(bytes) ==
    CASE bytes = "absent"    -> "read"
      [] bytes = "malformed" -> "compile"
      [] bytes = "mismatch"  -> "instantiate"
      [] bytes = "badstart"  -> "start"
      [] OTHER               -> "nothing"

\* The exception a throwing step surfaces to the caller.  The function has no
\* try/catch: the exception of the step is the rejection of the call.  The
\* names are those of the error taxonomy, by the step that threw.
ErrorOf(step) ==
    CASE step = "normalise"   -> "ConfigurationError"
      [] step = "import"      -> "ArtifactNotFoundError"
      [] step = "read"        -> "ArtifactNotFoundError"
      [] step = "compile"     -> "ModuleLinkError"
      [] step = "instantiate" -> "ModuleLinkError"
      [] step = "start"       -> "ModuleInitError"
      [] OTHER                -> "none"

VARIABLES
    initializedModules, \* line 8: the marker set
    moduleCache,        \* the ES module map: dir -> namespace object (0: not loaded)
    nextObj,            \* next fresh object identity
    disk,               \* dir -> DiskStates
    pc,                 \* call -> "idle" | "import" | "read" | "returned" | "threw"
    prov,               \* call -> the provider argument
    engine,             \* call -> the namespace object bound to `engine` (0: none)
    log,                \* call -> the steps the call has run, in order
    handle,             \* call -> the returned engine.QueryEngine (0: none)
    error,              \* call -> the exception surfaced to the caller
    failed,             \* call -> the step of the call that threw ("nothing": none)
    before,             \* call -> the calls that had settled when it started
    wasm                \* dir -> the payload whose exports the glue module holds

vars == <<initializedModules, moduleCache, nextObj, disk, pc, prov, engine,
          log, handle, error, failed, before, wasm>>

Settled(c) == pc[c] \in {"returned", "threw"}

Init ==
    /\ initializedModules = {}
    /\ moduleCache = [d \in Dirs |-> 0]
    /\ nextObj = 1
    /\ disk \in [Dirs -> DiskStates]
    /\ pc = [c \in Calls |-> "idle"]
    /\ prov = [c \in Calls |-> "oracle"]
    /\ engine = [c \in Calls |-> 0]
    /\ log = [c \in Calls |-> <<>>]
    /\ handle = [c \in Calls |-> 0]
    /\ error = [c \in Calls |-> "none"]
    /\ failed = [c \in Calls |-> "nothing"]
    /\ before = [c \in Calls |-> {}]
    /\ wasm = [d \in Dirs |-> "unset"]

\* Position of x in seq (0 when absent).
Pos(seq, x) ==
    IF \E i \in 1..Len(seq) : seq[i] = x
    THEN CHOOSE i \in 1..Len(seq) : seq[i] = x /\ \A j \in 1..(i-1) : seq[j] # x
    ELSE 0

Has(seq, x) == Pos(seq, x) > 0

\* The import issued on the identifier as passed, ahead of normalisation.
FirstSegmentImportFirst(p) ==
    [pc |-> "import", log |-> <<"import", "normalise">>, failed |-> "nothing"]

\* Lines 13-16: what the call has run when it reaches its first await.
\* normaliseProvider runs first; import() is reached only if it returned.
FirstSegment(p) ==
    IF normaliseProvider(p) = NoDir
    THEN [pc |-> "threw", log |-> <<"normalise">>, failed |-> "normalise"]
    ELSE [pc |-> "import", log |-> <<"normalise", "import">>, failed |-> "nothing"]

\* Lines 10-16: the c-th call is made, with argument p.
Call(c, p) ==
    /\ pc[c] = "idle"
    /\ \A d \in Calls : d < c => pc[d] # "idle"
    /\ prov' = [prov EXCEPT ![c] = p]
    /\ before' = [before EXCEPT ![c] = {d \in Calls : Settled(d)}]
    /\ pc' = [pc EXCEPT ![c] = FirstSegment(p).pc]
    /\ log' = [log EXCEPT ![c] = FirstSegment(p).log]
    /\ failed' = [failed EXCEPT ![c] = FirstSegment(p).failed]
    /\ error' = [error EXCEPT ![c] = ErrorOf(FirstSegment(p).failed)]
    /\ UNCHANGED <<initializedModules, moduleCache, nextObj, disk, engine,
                   handle, wasm>>

\* import() that evaluates query_engine_bg.js anew on every call (a specifier
\* the module map never matches).
ImportModuleNoCache(dir) ==
    IF dir \notin Dirs THEN 0
    ELSE IF disk[dir] # "absent" THEN nextObj
    ELSE 0

\* Line 14: the namespace object import() resolves to for a directory, given
\* the module map and the disk: the cached one, else a freshly evaluated one
\* when query_engine_bg.js exists, else 0 (the import rejects).
ImportModule(dir) ==
    IF dir \notin Dirs THEN 0
    ELSE IF moduleCache[dir] # 0 THEN moduleCache[dir]
    ELSE IF disk[dir] # "absent" THEN nextObj
    ELSE 0

\* The membership test with its sense inverted.
IsInitializedInverted(p) == p \notin initializedModules

\* The membership test on the normalised directory segment.
IsInitializedByDir(p) ==
    \E q \in initializedModules : normaliseProvider(q) = normaliseProvider(p)

\* Line 18: the membership test, on the identifier as passed.
IsInitialized(p) == p \in initializedModules

\* Line 38: the QueryEngine export of a namespace object.
QueryEngine(ns) == ns

\* Lines 14-26 and 38: the import settles; the call either rejects, or
\* returns the cached engine, or issues the read of the binary.
ImportSettle(c) ==
    LET dir == normaliseProvider(prov[c])
        ns  == ImportModule(dir)
    IN  /\ pc[c] = "import"
        /\ IF ns = 0
           THEN /\ pc' = [pc EXCEPT ![c] = "threw"]
                /\ error' = [error EXCEPT ![c] = ErrorOf("import")]
                /\ failed' = [failed EXCEPT ![c] = "import"]
                /\ UNCHANGED <<moduleCache, nextObj, engine, log, handle>>
           ELSE /\ moduleCache' = [moduleCache EXCEPT ![dir] = ns]
                /\ nextObj' = IF ns = nextObj THEN nextObj + 1 ELSE nextObj
                /\ engine' = [engine EXCEPT ![c] = ns]
                /\ UNCHANGED <<error, failed>>
                /\ IF IsInitialized(prov[c])
                   THEN /\ pc' = [pc EXCEPT ![c] = "returned"]
                        /\ handle' = [handle EXCEPT ![c] = QueryEngine(ns)]
                        /\ UNCHANGED log
                   ELSE /\ pc' = [pc EXCEPT ![c] = "read"]
                        /\ log' = [log EXCEPT ![c] = Append(@, "read")]
                        /\ UNCHANGED handle
        /\ UNCHANGED <<initializedModules, disk, prov, before, wasm>>

\* Lines 19-35: the steps run from the read on, up to and including the one
\* that throws.
StepsRun(bytes) ==
    IF FailingStep(bytes) = "nothing"
    THEN InitOrder
    ELSE SubSeq(InitOrder, 1, Pos(InitOrder, FailingStep(bytes)))

\* A catch around the start export that lets line 38 run after it threw.
SurfacesButStart(step) == step \notin {"nothing", "start"}

\* Lines 19-38 hold no try/catch: whatever a step throws ends the call and
\* is the rejection its caller sees; line 38 is reached only if none threw.
Surfaces(step) == step # "nothing"

\* The directory segment added to the set in place of the identifier.
MarkerAddedNormalised(p) == normaliseProvider(p)

\* Line 35: the element initializedModules.add adds, the identifier as passed.
MarkerAdded(p) == p

\* Lines 19-38: the read settles and the rest of the function runs without
\* another await: compile, instantiate, __wbg_set_wasm, __wbindgen_start,
\* initializedModules.add, return.
ReadSettle(c) ==
    LET dir   == normaliseProvider(prov[c])
        bytes == disk[dir]
        run   == StepsRun(bytes)
        fail  == FailingStep(bytes)
    IN  /\ pc[c] = "read"
        /\ log' = [log EXCEPT ![c] = @ \o Tail(run)]
        /\ wasm' = IF Has(run, "bind")
                   THEN [wasm EXCEPT ![dir] = bytes] ELSE wasm
        /\ initializedModules' =
              IF Has(run, "add")
              THEN initializedModules \cup {MarkerAdded(prov[c])}
              ELSE initializedModules
        /\ failed' = [failed EXCEPT ![c] = fail]
        /\ IF Surfaces(fail)
           THEN /\ pc' = [pc EXCEPT ![c] = "threw"]
                /\ error' = [error EXCEPT ![c] = ErrorOf(fail)]
                /\ UNCHANGED handle
           ELSE /\ pc' = [pc EXCEPT ![c] = "returned"]
                /\ handle' = [handle EXCEPT ![c] = QueryEngine(engine[c])]
                /\ UNCHANGED error
        /\ UNCHANGED <<moduleCache, nextObj, disk, prov, engine, before>>

\* The environment replaces the content of pkg/<dir>.
DiskChange(d, k) ==
    /\ disk[d] # k
    /\ disk' = [disk EXCEPT ![d] = k]
    /\ UNCHANGED <<initializedModules, moduleCache, nextObj, pc, prov, engine,
                   log, handle, error, failed, before, wasm>>

Next ==
    \/ \E c \in Calls, p \in Providers : Call(c, p)
    \/ \E c \in Calls : ImportSettle(c)
    \/ \E c \in Calls : ReadSettle(c)
    \/ \E d \in Dirs, k \in DiskStates : DiskChange(d, k)

Spec == Init /\ [][Next]_vars

\* The event loop runs the continuation of every promise that can settle:
\* no import and no read stays pending for ever.
FairSpec ==
    /\ Spec
    /\ \A c \in Calls : WF_vars(ImportSettle(c)) /\ WF_vars(ReadSettle(c))

\* The process run with the content of pkg left as it is found (whatever
\* each directory holds) and no await left pending for ever.
LiveNext ==
    \/ \E c \in Calls, p \in Providers : Call(c, p)
    \/ \E c \in Calls : ImportSettle(c)
    \/ \E c \in Calls : ReadSettle(c)

LiveSpec ==
    /\ Init /\ [][LiveNext]_vars
    /\ \A c \in Calls : WF_vars(ImportSettle(c)) /\ WF_vars(ReadSettle(c))

TypeOK ==
    /\ initializedModules \subseteq Supported
    /\ \A c \in Calls : pc[c] \in {"idle", "import", "read", "returned", "threw"}

----------------------------------------------------------------------------
\* Vocabulary of the properties.

Started(c) == pc[c] # "idle"

\* c2 was made after c1 had settled.
After(c1, c2) == Started(c2) /\ c1 \in before[c2]

\* Neither call was made after the other had settled.
Concurrent(c1, c2) ==
    /\ c1 # c2 /\ Started(c1) /\ Started(c2)
    /\ c1 \notin before[c2] /\ c2 \notin before[c1]

\* Number of times the call has run a step.
Count(c, step) == Cardinality({i \in 1..Len(log[c]) : log[c][i] = step})

\* The step is in the call's log and is not the one that threw.
Completed(c, step) == Has(log[c], step) /\ failed[c] # step

----------------------------------------------------------------------------
\* C1: for a supported provider p, when a call for p is made after an earlier
\* call for p has returned, the later call also returns, both hold the same
\* handle reference, and the two calls together read the binary at most once.
C1_SequentialIdempotent ==
    \A c1, c2 \in Calls :
        ( /\ prov[c1] = prov[c2] /\ prov[c1] \in Supported
          /\ pc[c1] = "returned" /\ After(c1, c2) )
        => /\ Count(c1, "read") + Count(c2, "read") <= 1
           /\ handle[c1] # 0
           /\ Settled(c2) => pc[c2] = "returned" /\ handle[c2] = handle[c1]

\* Two calls for the same provider, one after the other, both returned, the
\* first of them having read the binary.
C1_Witness ==
    \E c1, c2 \in Calls :
        /\ prov[c1] = prov[c2] /\ prov[c1] \in Supported
        /\ pc[c1] = "returned" /\ After(c1, c2) /\ pc[c2] = "returned"
        /\ Count(c1, "read") = 1

\* C2: of the concurrent calls for one provider, at most one runs the
\* compile/instantiate/start sequence to its end.
C2_AtMostOneInitialisation ==
    \A c1, c2 \in Calls :
        (Concurrent(c1, c2) /\ prov[c1] = prov[c2])
        => ~(Has(log[c1], "add") /\ Has(log[c2], "add"))


\* The directory a started call works on.
DirOf(c) == normaliseProvider(prov[c])

\* The step in which the read of call c settles and lines 19-38 run.
ReadSettles(c) == pc[c] = "read" /\ pc'[c] # "read"

\* Call c ran the whole of compile, instantiate, bind, start and add.
RanInitialisation(c) ==
    /\ Completed(c, "compile") /\ Completed(c, "instantiate")
    /\ Completed(c, "bind") /\ Completed(c, "start") /\ Completed(c, "add")

\* C3: when the start export throws in a call for p, the call rejects with
\* ModuleInitError, holds no handle and leaves the marker set as it was; a
\* call for p made after that failure which finds p unmarked runs the
\* initialisation again and, with a working module, returns the handle and
\* marks p; p is marked only in a step whose start export returned.
C3_StartFailure ==
    [][ /\ \A c \in Calls :
             (ReadSettles(c) /\ disk[DirOf(c)] = "badstart")
             => /\ pc'[c] = "threw" /\ error'[c] = "ModuleInitError"
                /\ handle'[c] = 0
                /\ initializedModules' = initializedModules
        /\ \A c1, c2 \in Calls :
             ( /\ After(c1, c2) /\ prov[c1] = prov[c2]
               /\ error[c1] = "ModuleInitError" )
             => /\ ( /\ pc[c2] = "import" /\ pc'[c2] \notin {"import", "threw"}
                     /\ prov[c2] \notin initializedModules )
                   => pc'[c2] = "read"
                /\ (ReadSettles(c2) /\ disk[DirOf(c2)] = "good")
                   => /\ pc'[c2] = "returned" /\ handle'[c2] # 0
                      /\ Count(c2, "start")' = 1
                      /\ prov[c2] \in initializedModules'
        /\ \A p \in Providers :
             (p \notin initializedModules /\ p \in initializedModules')
             => \E c \in Calls :
                  /\ prov[c] = p /\ ReadSettles(c)
                  /\ disk[DirOf(c)] = "good" /\ pc'[c] = "returned"
      ]_vars

\* A call whose start export threw, followed by a call for the same provider
\* that ran the initialisation again and marked the provider.
C3_Witness ==
    \E c1, c2 \in Calls :
        /\ After(c1, c2) /\ prov[c1] = prov[c2]
        /\ error[c1] = "ModuleInitError" /\ failed[c1] = "start"
        /\ pc[c2] = "returned" /\ RanInitialisation(c2)
        /\ prov[c2] \in initializedModules

\* C4: when the binary is absent at the read of a call for p, the call
\* rejects with ArtifactNotFoundError and leaves the marker set as it was; a
\* call for p made after that failure whose read finds a working binary
\* returns the handle.
C4_ArtifactAbsent ==
    [][ /\ \A c \in Calls :
             (ReadSettles(c) /\ disk[DirOf(c)] = "absent")
             => /\ pc'[c] = "threw" /\ error'[c] = "ArtifactNotFoundError"
                /\ failed'[c] = "read" /\ handle'[c] = 0
                /\ log'[c] = log[c]
                /\ initializedModules' = initializedModules
        /\ \A c1, c2 \in Calls :
             ( /\ After(c1, c2) /\ prov[c1] = prov[c2]
               /\ failed[c1] = "read"
               /\ ReadSettles(c2) /\ disk[DirOf(c2)] = "good" )
             => /\ pc'[c2] = "returned" /\ handle'[c2] # 0
                /\ prov[c2] \in initializedModules'
      ]_vars

\* A call that failed at the read of an absent binary, followed by a call for
\* the same provider that returned the handle after reading it.
C4_Witness ==
    \E c1, c2 \in Calls :
        /\ After(c1, c2) /\ prov[c1] = prov[c2]
        /\ failed[c1] = "read" /\ error[c1] = "ArtifactNotFoundError"
        /\ pc[c2] = "returned" /\ Has(log[c2], "read") /\ handle[c2] # 0
        /\ prov[c2] \in initializedModules


\* C5: a call with an identifier outside the supported set rejects with
\* ConfigurationError having run normalisation only -- no import, no read --
\* and the step in which it is made leaves the marker set as it was.
C5_Unsupported ==
    /\ [](\A c \in Calls :
            (Started(c) /\ prov[c] \notin Supported)
            => /\ pc[c] = "threw" /\ error[c] = "ConfigurationError"
               /\ log[c] = <<"normalise">>
               /\ engine[c] = 0 /\ handle[c] = 0)
    /\ [][ \A c \in Calls :
             (pc[c] = "idle" /\ pc'[c] # "idle" /\ prov'[c] \notin Supported)
             => /\ initializedModules' = initializedModules
                /\ moduleCache' = moduleCache
      ]_vars

\* A call for an unsupported identifier has been made while a provider was
\* already marked.
C5_Witness ==
    \E c \in Calls :
        /\ Started(c) /\ prov[c] \notin Supported
        /\ initializedModules # {}

\* C6: every identifier in the marker set is the argument of a call in which
\* instantiation and the start export both completed; no step removes an
\* identifier from the set.
C6_MarkerSet ==
    /\ [](\A p \in initializedModules :
            \E c \in Calls :
                /\ prov[c] = p
                /\ Completed(c, "instantiate") /\ Completed(c, "start"))
    /\ [][initializedModules \subseteq initializedModules']_vars

\* A provider is marked, and a call made afterwards has failed.
C6_Witness ==
    \E c1, c2 \in Calls :
        /\ After(c1, c2) /\ Has(log[c1], "add")
        /\ prov[c1] \in initializedModules
        /\ pc[c2] = "threw"

\* C7: a settled call in which a step threw holds no handle and carries the
\* exception of that step; a call that returned holds the QueryEngine export
\* of its directory's glue module and none of its steps threw.
C7_NoPartialHandle ==
    \A c \in Calls :
        /\ (Settled(c) /\ failed[c] # "nothing")
           => /\ pc[c] = "threw" /\ handle[c] = 0
              /\ error[c] = ErrorOf(failed[c]) /\ error[c] # "none"
        /\ pc[c] = "threw" => failed[c] # "nothing"
        /\ pc[c] = "returned"
           => /\ failed[c] = "nothing" /\ error[c] = "none"
              /\ handle[c] # 0
              /\ handle[c] = QueryEngine(moduleCache[DirOf(c)])
              /\ Has(log[c], "read") => RanInitialisation(c)
        /\ ~Settled(c) => handle[c] = 0

\* One call failed at its start export and another, for the same provider,
\* returned the handle.
C7_Witness ==
    \E c1, c2 \in Calls :
        /\ prov[c1] = prov[c2]
        /\ pc[c1] = "threw" /\ failed[c1] = "start"
        /\ pc[c2] = "returned" /\ handle[c2] # 0


\* The steps of step 4, in the order the description of the loader gives.
Step4Order == <<"read", "compile", "instantiate", "bind", "start", "add">>

\* The part of a call's log that belongs to step 4.
Step4Log(c) ==
    IF Has(log[c], "read")
    THEN SubSeq(log[c], Pos(log[c], "read"), Len(log[c]))
    ELSE <<>>

\* C8: while p is in the marker set no call for p runs a step of step 4; and
\* a call that threw leaves the marker set as it was, so that a later call
\* for an unmarked p enters step 4 again.
C8_ReadyTerminal ==
    [][ /\ \A c \in Calls :
             (Started(c) /\ prov[c] \in initializedModules)
             => Step4Log(c)' = Step4Log(c)
        /\ \A c \in Calls :
             (pc[c] # "threw" /\ pc'[c] = "threw")
             => initializedModules' = initializedModules
      ]_vars

\* C9: the steps of step 4 a call has run are an initial part of read,
\* compile, instantiate, bind, start, add, each run once; a call that has
\* added the marker has returned from its start export; the glue module
\* holds the exports of a payload only after an instantiation of it.
C9_StepOrder ==
    \A c \in Calls :
        /\ Has(log[c], "read")
           => \E n \in 1..Len(Step4Order) :
                 Step4Log(c) = SubSeq(Step4Order, 1, n)
        /\ Count(c, "start") <= 1
        /\ Has(log[c], "start") => Completed(c, "bind")
        /\ Has(log[c], "add") => Completed(c, "start") /\ pc[c] = "returned"

\* A call has run all of step 4, and another stopped at the start export.
C9_Witness ==
    \E c1, c2 \in Calls :
        /\ Step4Log(c1) = Step4Order
        /\ failed[c2] = "start"
        /\ Step4Log(c2) = SubSeq(Step4Order, 1, 5)

\* C10: when the import of a call settles without throwing, the call goes on
\* to step 4 exactly if the identifier it was passed is not in the marker
\* set, whatever other identifiers of the same directory are in it; a call
\* that returned ran step 4 or found its own identifier marked.
C10_ExactIdentifier ==
    /\ [][ \A c \in Calls :
             (pc[c] = "import" /\ pc'[c] \notin {"import", "threw"})
             => /\ pc'[c] = "read" <=> prov[c] \notin initializedModules
                /\ pc'[c] = "returned" <=> prov[c] \in initializedModules
                /\ Has(log'[c], "read") <=> prov[c] \notin initializedModules
      ]_vars
    /\ [](\A c \in Calls :
            pc[c] = "returned"
            => /\ prov[c] \in initializedModules
               /\ Has(log[c], "read") => RanInitialisation(c))

\* An identifier is marked, and a call made afterwards with a different
\* identifier of the same directory has instantiated and started the module
\* again.
C10_Witness ==
    \E c1, c2 \in Calls :
        /\ After(c1, c2)
        /\ prov[c1] # prov[c2] /\ DirOf(c1) = DirOf(c2)
        /\ pc[c1] = "returned" /\ RanInitialisation(c1)
        /\ prov[c1] \in initializedModules
        /\ pc[c2] = "returned" /\ RanInitialisation(c2)


\* C11: when the payload read by a call does not compile, or does not link
\* against the glue module, the call rejects with ModuleLinkError and holds
\* no handle; that step binds no exports, invokes no start export and leaves
\* the marker set as it was, as do the earlier steps of the call; a call made
\* after that failure whose read finds a working payload returns the handle.
C11_LinkFailure ==
    [][ /\ \A c \in Calls :
             (ReadSettles(c) /\ disk[DirOf(c)] \in {"malformed", "mismatch"})
             => /\ pc'[c] = "threw" /\ error'[c] = "ModuleLinkError"
                /\ handle'[c] = 0
                /\ failed'[c] =
                     (IF disk[DirOf(c)] = "malformed"
                      THEN "compile" ELSE "instantiate")
                /\ ~Has(log'[c], "bind") /\ ~Has(log'[c], "start")
                /\ ~Has(log'[c], "add")
                /\ wasm' = wasm
                /\ initializedModules' = initializedModules
        /\ \A c \in Calls :
             (pc'[c] # pc[c] /\ pc'[c] \in {"import", "read", "threw"})
             => initializedModules' = initializedModules
        /\ \A c1, c2 \in Calls :
             ( /\ After(c1, c2) /\ prov[c1] = prov[c2]
               /\ error[c1] = "ModuleLinkError"
               /\ ReadSettles(c2) /\ disk[DirOf(c2)] = "good" )
             => /\ pc'[c2] = "returned" /\ handle'[c2] # 0
                /\ prov[c2] \in initializedModules'
      ]_vars

\* One call failed at compilation or instantiation, and a call for the same
\* provider made afterwards ran the initialisation and returned.
C11_Witness ==
    \E c1, c2 \in Calls :
        /\ After(c1, c2) /\ prov[c1] = prov[c2]
        /\ error[c1] = "ModuleLinkError" /\ failed[c1] = "instantiate"
        /\ prov[c1] \in initializedModules
        /\ pc[c2] = "returned" /\ RanInitialisation(c2)


\* C12: for as long as the read of a call initialising p has not settled, p
\* is not in the marker set and no call for p has returned the handle (so a
\* read that never settles keeps p unmarked for ever).
C12_StuckReadBlocks ==
    \A c \in Calls :
        pc[c] = "read"
        => /\ prov[c] \notin initializedModules
           /\ \A c2 \in Calls : prov[c2] = prov[c] => pc[c2] # "returned"


\* C13: a call that has returned the handle has its own identifier in the
\* marker set, and some call for that identifier has completed the start
\* export and the add -- from the state of its return on, concurrent calls
\* and earlier failed calls notwithstanding.
C13_ReturnedImpliesMarked ==
    \A c \in Calls :
        pc[c] = "returned"
        => /\ handle[c] # 0
           /\ prov[c] \in initializedModules
           /\ \E c2 \in Calls :
                /\ prov[c2] = prov[c]
                /\ Completed(c2, "start") /\ Completed(c2, "add")

\* A call returned the handle while a concurrent call for the same provider
\* failed.
C13_Witness ==
    \E c1, c2 \in Calls :
        /\ Concurrent(c1, c2) /\ prov[c1] = prov[c2]
        /\ pc[c1] = "threw" /\ Has(log[c1], "read")
        /\ pc[c2] = "returned" /\ handle[c2] # 0

\* The step of call c: it is the only one to change the call's position.
StepOf(c) == pc'[c] # pc[c]

\* C14: a step of a call for p leaves the membership of every other
\* identifier as it was; the only change it can make to the marker set is to
\* add p; a step in which the call throws changes nothing in the set.
C14_Frame ==
    [][ \A c \in Calls :
          StepOf(c)
          => /\ \A q \in Providers :
                  q # prov'[c]
                  => (q \in initializedModules' <=> q \in initializedModules)
             /\ initializedModules' \in
                  {initializedModules, initializedModules \cup {prov'[c]}}
             /\ pc'[c] = "threw" => initializedModules' = initializedModules
      ]_vars

\* A call has added its identifier while another identifier of the same
\* directory is not in the set, and another call has thrown.
C14_Witness ==
    \E c1, c2 \in Calls :
        /\ c1 # c2
        /\ Has(log[c1], "add") /\ initializedModules = {prov[c1]}
        /\ prov[c1] = "postgres"
        /\ pc[c2] = "threw" /\ prov[c2] = "postgresql"


\* The call is suspended at one of its awaits.
Pending(c) == pc[c] \in {"import", "read"}

\* The directory of the call's provider holds a working module.
WorkingModule(c) == DirOf(c) \in Dirs /\ disk[DirOf(c)] = "good"

\* C15: a call for a supported provider p, suspended at an await, eventually
\* returns the handle with p in the marker set, unless the directory of p
\* stops holding a working module; and p, once marked, stays marked.
C15_EventuallyReturns ==
    /\ \A c \in Calls :
          Pending(c)
          ~> \/ /\ pc[c] = "returned" /\ handle[c] # 0
                /\ prov[c] \in initializedModules
             \/ ~WorkingModule(c)
    /\ [][\A p \in Supported :
            p \in initializedModules => p \in initializedModules']_vars

\* Two concurrent calls for one provider have both returned the handle and
\* the provider is marked, its directory holding a working module.
C15_Witness ==
    \E c1, c2 \in Calls :
        /\ Concurrent(c1, c2) /\ prov[c1] = prov[c2]
        /\ disk[DirOf(c1)] = "good"
        /\ pc[c1] = "returned" /\ pc[c2] = "returned"
        /\ handle[c1] = handle[c2] /\ handle[c1] # 0
        /\ prov[c1] \in initializedModules

====
